---- MODULE Spec2Model ----
(***************************************************************************)
(* Quantana: the drift scoring engine (lib/telemetry), the timer-driven    *)
(* dashboard (components/quantum/charts.tsx, QuantumDashboard) and the     *)
(* stream-driven dashboard (QuantumDashboard fed by /api/stream).          *)
(*                                                                         *)
(* Numbers.  The program computes in IEEE doubles; the model computes in   *)
(* fixed point, each metric in the unit the generator rounds it to:        *)
(*   t1, t2            0.01   (round(x, 2))                                *)
(*   gate1q, gate2q,                                                       *)
(*   readout, vibration, em   0.001  (round(x, 3))                         *)
(*   temp              0.00001 (round(x, 5))                               *)
(* ema and resMean are kept in the metric's unit, resVar in the square of  *)
(* the unit (temp: 100 squared units, so that resVar = 1 fits 32 bits).    *)
(* z values, scores and thresholds are in thousandths.  Every product is   *)
(* rounded to the nearest unit (RoundDiv).  The value NaN, which a missing *)
(* field or a text that is no number brings in, is the integer NaN, below  *)
(* every number of the model; the operators that may meet it compute with  *)
(* it as JavaScript does: arithmetic on NaN gives NaN, a comparison with   *)
(* NaN is false.                                                           *)
(*                                                                         *)
(* React.  A handler runs to its end in one step.  The state updates a     *)
(* timer or stream handler dispatches wait in `queue` until React renders  *)
(* (Render), which applies them in dispatch order; refs change at once.    *)
(* An updater function runs in the render, unless React runs it eagerly at *)
(* dispatch, which it may do when nothing is queued (TickEager); a         *)
(* setState call made by an updater that runs in the render is applied     *)
(* after the updates dispatched before the render.  A click or an input    *)
(* event is rendered before any other handler runs (Sync).  Handlers and   *)
(* updaters read the props of the render that created them.                *)
(***************************************************************************)
EXTENDS Integers, Sequences, FiniteSets, TLC

\* ------------------------------------------------------------ arithmetic

Abs(x) == IF x < 0 THEN -x ELSE x

Max(a, b) == IF a >= b THEN a ELSE b

Min(a, b) == IF a <= b THEN a ELSE b

\* n / d rounded to the nearest integer (halves away from zero), d > 0
RoundDiv(n, d) ==
    IF n >= 0 THEN (2 * n + d) \div (2 * d) ELSE -((2 * (-n) + d) \div (2 * d))

RECURSIVE ISqrtBetween(_, _, _)
\* the largest r in lo..hi with r * r <= n, by bisection
ISqrtBetween(n, lo, hi) ==
    IF lo >= hi THEN lo
    ELSE LET mid == (lo + hi + 1) \div 2
         IN  IF mid * mid <= n THEN ISqrtBetween(n, mid, hi)
             ELSE ISqrtBetween(n, lo, mid - 1)

\* Math.sqrt on a non-negative fixed-point value: floor of the square root
ISqrt(n) == IF n <= 0 THEN 0 ELSE ISqrtBetween(n, 0, Min(n, 46340))

\* Number.NaN
NaN == -2000000000

\* a - b
Minus(a, b) == IF a = NaN \/ b = NaN THEN NaN ELSE a - b

\* a >= b
Geq(a, b) == a # NaN /\ b # NaN /\ a >= b

\* clamp without its upper limit
clampFloor(x, lo, hi) == IF x = NaN THEN NaN ELSE Max(lo, x)

\* clamp(x, lo, hi) of lib/utils; Math.min and Math.max give NaN for NaN
clamp(x, lo, hi) == IF x = NaN THEN NaN ELSE Max(lo, Min(hi, x))

\* ------------------------------------------------------------ metrics

KEYS == <<"t1", "t2", "gate1q", "gate2q", "readout", "temp", "vibration", "em">>

KeySet == {KEYS[i] : i \in 1..Len(KEYS)}

\* units per 1.0 of each metric
Unit(k) ==
    CASE k \in {"t1", "t2"} -> 100
      [] k = "temp" -> 100000
      [] OTHER -> 1000

\* squared units per unit of resVar
VarDiv(k) == IF k = "temp" THEN 100 ELSE 1

\* square root of VarDiv
VarDivRoot(k) == IF k = "temp" THEN 10 ELSE 1

\* the value 1 of resVar
VarOne(k) == (Unit(k) \div VarDivRoot(k)) * (Unit(k) \div VarDivRoot(k))

\* one field per key of KEYS: the record a loop "for (const k of KEYS)" fills
ByKey(F(_)) ==
    [t1 |-> F("t1"), t2 |-> F("t2"), gate1q |-> F("gate1q"), gate2q |-> F("gate2q"),
     readout |-> F("readout"), temp |-> F("temp"), vibration |-> F("vibration"),
     em |-> F("em")]

Null == [null |-> TRUE]

\* ------------------------------------------------------------ drift model

\* emaUpdate stepping away from x: prev - alpha * (x - prev)
emaUpdateAway(prev, x, num, den) ==
    IF prev = NaN \/ x = NaN THEN NaN ELSE prev - RoundDiv(num * (x - prev), den)

\* emaUpdate(prev, x, alpha), alpha = num / den
emaUpdate(prev, x, num, den) ==
    IF prev = NaN \/ x = NaN THEN NaN ELSE prev + RoundDiv(num * (x - prev), den)

\* (residual - m2) ** 2 in the unit of resVar
SquareDev(k, d) == IF d = NaN THEN NaN ELSE RoundDiv(d * d, VarDiv(k))

\* Math.sqrt(state.resVar[k]) in sixteenths of the metric's unit
Stdev16(k, v) ==
    IF v = NaN THEN NaN
    ELSE VarDivRoot(k) * (IF v <= 8000000 THEN ISqrt(v * 256) ELSE 16 * ISqrt(v))

\* zScore(residual, mean, stdev) in thousandths; stdev in sixteenths of a unit
zScore(residual, mean, stdev16) ==
    IF stdev16 # NaN /\ stdev16 > 0
    THEN LET d == Minus(residual, mean)
         IN  IF d = NaN THEN NaN
             ELSE IF d >= 0 THEN (d * 16000) \div stdev16
             ELSE -((-d * 16000) \div stdev16)
    ELSE 0

\* initDriftState with resVar[k] = 0
initDriftStateZeroVar(p) ==
    [ema     |-> ByKey(LAMBDA k : p[k]),
     resMean |-> ByKey(LAMBDA k : 0),
     resVar  |-> ByKey(LAMBDA k : 0)]

initDriftState(p) ==
    [ema     |-> ByKey(LAMBDA k : p[k]),
     resMean |-> ByKey(LAMBDA k : 0),
     resVar  |-> ByKey(LAMBDA k : VarOne(k))]

\* one key of updateDriftState: <<newEma, m2, v2>>
UpdateKey(state, p, num, den, k) ==
    LET x        == p[k]
        baseline == state.ema[k]
        newEma   == emaUpdate(baseline, x, num, den)
        residual == Minus(x, newEma)
        m        == state.resMean[k]
        v        == state.resVar[k]
        m2       == emaUpdate(m, residual, 1, 20)
        v2       == emaUpdate(v, SquareDev(k, Minus(residual, m2)), 1, 20)
    IN  <<newEma, m2, v2>>

updateDriftState(state, p, num, den) ==
    [ema     |-> ByKey(LAMBDA k : UpdateKey(state, p, num, den, k)[1]),
     resMean |-> ByKey(LAMBDA k : UpdateKey(state, p, num, den, k)[2]),
     resVar  |-> ByKey(LAMBDA k : UpdateKey(state, p, num, den, k)[3])]

\* every metric with the weight 1.0
weightsEqual(k) == 10

\* the weights of driftScore, in tenths
weights(k) ==
    CASE k \in {"t1", "gate2q"} -> 12
      [] k = "t2" -> 11
      [] k \in {"gate1q", "readout"} -> 10
      [] k = "temp" -> 8
      [] OTHER -> 7

\* z of one key in driftScore, in thousandths
ZOf(state, p, k) ==
    LET z == zScore(Minus(p[k], state.ema[k]), state.resMean[k],
                    Stdev16(k, state.resVar[k]))
    IN  IF z = NaN THEN NaN ELSE Abs(z)

RECURSIVE SumOver(_, _, _)
\* sum of f[KEYS[i]] * g[KEYS[i]] for i in 1..n
SumOver(f, g, n) ==
    IF n = 0 THEN 0
    ELSE LET rest == SumOver(f, g, n - 1)
         IN  IF rest = NaN \/ g[KEYS[n]] = NaN THEN NaN
             ELSE f[KEYS[n]] * g[KEYS[n]] + rest

\* driftScore(state, p) in thousandths
driftScore(state, p) ==
    LET z     == ByKey(LAMBDA k : ZOf(state, p, k))
        w     == ByKey(LAMBDA k : weights(k))
        one   == ByKey(LAMBDA k : 1)
        total == SumOver(w, z, Len(KEYS))
        wsum  == SumOver(w, one, Len(KEYS))
    IN  IF total = NaN THEN NaN ELSE total \div Max(1, wsum)

\* ------------------------------------------------------------ health score
\*
\* The six sub-scores are in units of 1e-5, the score in tenths.

\* clamp(d / span, 0, 1), for span > 0
HealthPart(d, span) ==
    IF d = NaN THEN NaN
    ELSE IF d <= 0 THEN 0
    ELSE IF d >= span THEN 100000
    ELSE RoundDiv(d * 100000, span)

\* 1 - clamp(((p.temp - 0.015) / 0.02 + p.vibration / 1.8 + p.em / 1.8) / 3, 0, 1)
HealthEnv(p) ==
    IF p.temp = NaN \/ p.vibration = NaN \/ p.em = NaN THEN NaN
    ELSE 100000 - clamp(RoundDiv((p.temp - 1500) * 50 + RoundDiv(p.vibration * 1000, 18)
                                    + RoundDiv(p.em * 1000, 18), 3),
                        0, 100000)

\* the six sub-scores t1, t2, g1, g2, ro, env of computeHealthScore
HealthParts(p) ==
    <<HealthPart(Minus(p.t1, 3000), 8000), HealthPart(Minus(p.t2, 2000), 6000),
      HealthPart(Minus(p.gate1q, 99200), 700), HealthPart(Minus(p.gate2q, 97500), 2200),
      HealthPart(Minus(2500, p.readout), 2500), HealthEnv(p)>>

\* the weight of env at 0.12
HealthWeightsHeavy == <<22, 22, 18, 18, 12, 12>>

\* the weights of computeHealthScore, in hundredths
HealthWeights == <<22, 22, 18, 18, 12, 8>>

\* score, in units of 1e-5
HealthSum(parts) ==
    IF \E i \in 1..6 : parts[i] = NaN THEN NaN
    ELSE HealthWeights[1] * parts[1] + HealthWeights[2] * parts[2]
           + HealthWeights[3] * parts[3] + HealthWeights[4] * parts[4]
           + HealthWeights[5] * parts[5] + HealthWeights[6] * parts[6]

\* round(x, 1) for x in units of 1e-5 and not below 0, in tenths
RoundTenths(x) == IF x = NaN THEN NaN ELSE RoundDiv(x, 10000)

\* computeHealthScore(p), in tenths
computeHealthScore(p) == RoundTenths(HealthSum(HealthParts(p)))

\* ------------------------------------------------------------ generator

\* the base record of makeInitialSeries
base ==
    [t1 |-> 9500, t2 |-> 7000, gate1q |-> 99700, gate2q |-> 99100,
     readout |-> 1500, temp |-> 1200, vibration |-> 600, em |-> 550]

\* Math.sin(t * Math.PI * 2.2) * scale for t = j / n, by Bhaskara's rational
\* approximation of the sine on each half period (error below 0.2% of scale)
SinTimes(scale, j, n) ==
    LET whole == 10 * n
        turns == (22 * j) \div whole
        a     == (22 * j) % whole
        q     == a * (whole - a)
        half  == RoundDiv(scale * 16 * q, 5 * whole * whole - 4 * q)
    IN  IF turns % 2 = 0 THEN half ELSE -half

\* the point makeInitialSeries pushes at loop index i (i = n - 1 down to 0);
\* rn[k] is the value of the randn() call of metric k, in hundredths
InitialPoint(n, now, i, rn) ==
    LET j        == n - i
        \* drift = (t - 0.5) * 0.6 with t = j / n, times 1000 n
        driftN   == 600 * j - 300 * n
        posN     == Max(0, driftN)
        tempBump == SinTimes(200, j, n)
    IN  [ts        |-> now - i * 2000,
         t1        |-> base.t1 + RoundDiv(rn.t1 * 180, 100) - RoundDiv(220 * driftN, 1000 * n),
         t2        |-> base.t2 + RoundDiv(rn.t2 * 160, 100) - RoundDiv(180 * driftN, 1000 * n),
         gate1q    |-> base.gate1q + RoundDiv(rn.gate1q * 30, 100) - RoundDiv(20 * driftN, 1000 * n),
         gate2q    |-> base.gate2q + RoundDiv(rn.gate2q * 60, 100) - RoundDiv(50 * driftN, 1000 * n),
         readout   |-> base.readout + Abs(RoundDiv(rn.readout * 150, 100))
                         + RoundDiv(80 * driftN, 1000 * n),
         temp      |-> base.temp + Abs(RoundDiv(rn.temp * 70, 100)) + tempBump
                         + RoundDiv(90 * driftN, 1000 * n),
         vibration |-> base.vibration + Abs(RoundDiv(rn.vibration * 90, 100))
                         + RoundDiv(30 * posN, 1000 * n),
         em        |-> base.em + Abs(RoundDiv(rn.em * 80, 100))
                         + RoundDiv(30 * posN, 1000 * n)]

\* makeInitialSeries(n) at Date.now() = now; noise[j] holds the randn() values
\* of the j-th point pushed
makeInitialSeries(n, now, noise) ==
    [j \in 1..n |-> InitialPoint(n, now, n - j, noise[j])]

\* nextPoint(prev, intensity, injectSpike); intensity in tenths, rnd.n[k] the
\* randn() value of metric k in hundredths, rnd.u[k] its Math.random() value
\* in thousandths
nextPoint(prev, intensity, injectSpike, rnd) ==
    LET envPush == RoundDiv(175 * (prev.temp - 1200), 100)
                     + RoundDiv(22 * (prev.vibration - 600), 10)
                     + RoundDiv(22 * (prev.em - 550), 10)
        drift   == clamp(envPush, -2200, 2200)
        spike   == IF injectSpike THEN 1 ELSE 0
        n       == rnd.n
        u       == rnd.u
    IN  [ts        |-> prev.ts + 2000,
         t1        |-> clamp(prev.t1 + RoundDiv(n.t1 * 16 * intensity, 100)
                            - RoundDiv(7 * drift, 100)
                            - spike * (800 + RoundDiv(800 * u.t1, 1000)), 1800, 13000),
         t2        |-> clamp(prev.t2 + RoundDiv(n.t2 * 14 * intensity, 100)
                            - RoundDiv(5 * drift, 100)
                            - spike * (600 + RoundDiv(700 * u.t2, 1000)), 1200, 10000),
         gate1q    |-> clamp(prev.gate1q + RoundDiv(n.gate1q * 2 * intensity, 100)
                            - RoundDiv(drift, 100)
                            - spike * (50 + RoundDiv(70 * u.gate1q, 1000)), 98800, 99900),
         gate2q    |-> clamp(prev.gate2q + RoundDiv(n.gate2q * 5 * intensity, 100)
                            - RoundDiv(3 * drift, 100)
                            - spike * (80 + RoundDiv(140 * u.gate2q, 1000)), 97200, 99600),
         readout   |-> clamp(prev.readout + Abs(RoundDiv(n.readout * 12 * intensity, 100))
                            + RoundDiv(2 * drift, 100)
                            + spike * (500 + RoundDiv(900 * u.readout, 1000)), 400, 6500),
         temp      |-> clamp(prev.temp + Abs(RoundDiv(n.temp * 5 * intensity, 100))
                            + RoundDiv(30 * (u.temp - 350), 1000)
                            + spike * 400, 600, 5000),
         vibration |-> clamp(prev.vibration + Abs(RoundDiv(n.vibration * 6 * intensity, 100))
                            + RoundDiv(20 * (u.vibration - 450), 1000)
                            + spike * 600, 200, 3000),
         em        |-> clamp(prev.em + Abs(RoundDiv(n.em * 6 * intensity, 100))
                            + RoundDiv(20 * (u.em - 450), 1000)
                            + spike * 550, 200, 3000)]

\* ------------------------------------------------------------ alert rules

\* arr.slice(-n)
SliceLast(arr, n) == SubSeq(arr, Max(Len(arr) - n, 0) + 1, Len(arr))

\* arr.slice(-24, -12)
SlicePrevBlock(arr) == SubSeq(arr, Max(Len(arr) - 24, 0) + 1, Max(Len(arr) - 12, 0))

RECURSIVE SumT1(_, _)
\* arr.reduce((acc, r) => acc + r.t1, 0) over the first n elements
SumT1(arr, n) ==
    IF n = 0 THEN 0
    ELSE LET rest == SumT1(arr, n - 1)
         IN  IF rest = NaN \/ arr[n].t1 = NaN THEN NaN ELSE arr[n].t1 + rest

\* t1Trend < -1.4, with t1Trend = avg(recent, "t1") - avg(prevBlock, "t1") and
\* avg = sum / Math.max(1, length): compared exactly, both sides multiplied by
\* the two lengths
TrendBelow(recent, prevBlock) ==
    LET lr == Max(1, Len(recent))
        lp == Max(1, Len(prevBlock))
        sr == SumT1(recent, Len(recent))
        sp == SumT1(prevBlock, Len(prevBlock))
    IN  sr # NaN /\ sp # NaN /\ sr * lp - sp * lr < -140 * lr * lp

\* both branches of the drift rule taken at a critical score
DriftRuleBoth(dscore, th) ==
    (IF Geq(dscore, th.driftCritical)
     THEN <<[prefix |-> "crit", severity |-> "critical", title |-> "Drift critical"]>>
     ELSE <<>>)
    \o (IF Geq(dscore, th.driftWarn)
        THEN <<[prefix |-> "warn", severity |-> "warn", title |-> "Drift warning"]>>
        ELSE <<>>)

\* the drift rule: what it pushes on nextAlerts
DriftRule(dscore, th) ==
    IF Geq(dscore, th.driftCritical)
    THEN <<[prefix |-> "crit", severity |-> "critical", title |-> "Drift critical"]>>
    ELSE IF Geq(dscore, th.driftWarn)
         THEN <<[prefix |-> "warn", severity |-> "warn", title |-> "Drift warning"]>>
         ELSE <<>>

\* p.temp > 0.03
TempRuleAbove(p) ==
    IF p.temp # NaN /\ p.temp > 3000
    THEN <<[prefix |-> "temp", severity |-> "warn",
            title |-> "Cryostat temperature elevated"]>>
    ELSE <<>>

\* the temperature rule
TempRule(p) ==
    IF Geq(p.temp, 3000)
    THEN <<[prefix |-> "temp", severity |-> "warn",
            title |-> "Cryostat temperature elevated"]>>
    ELSE <<>>

\* the environment rule, critical only above 2.4
EnvRuleAbove(p) ==
    IF Geq(p.vibration, 2000) \/ Geq(p.em, 2000)
    THEN <<[prefix |-> "env",
            severity |-> IF Geq(p.vibration, 2401) \/ Geq(p.em, 2401)
                         THEN "critical" ELSE "warn",
            title |-> "Environmental interference"]>>
    ELSE <<>>

\* the environment rule
EnvRule(p) ==
    IF Geq(p.vibration, 2000) \/ Geq(p.em, 2000)
    THEN <<[prefix |-> "env",
            severity |-> IF Geq(p.vibration, 2400) \/ Geq(p.em, 2400)
                         THEN "critical" ELSE "warn",
            title |-> "Environmental interference"]>>
    ELSE <<>>

\* the trend rule content with a preceding block of 8 points
TrendRuleShort(hist) ==
    LET recent    == SliceLast(hist, 12)
        prevBlock == SlicePrevBlock(hist)
    IN  IF Len(recent) >= 12 /\ Len(prevBlock) >= 8 /\ TrendBelow(recent, prevBlock)
        THEN <<[prefix |-> "pm", severity |-> "info",
                title |-> "Predictive signal: coherence degrading"]>>
        ELSE <<>>

\* the predictive hint over the window hist
TrendRule(hist) ==
    LET recent    == SliceLast(hist, 12)
        prevBlock == SlicePrevBlock(hist)
    IN  IF Len(recent) >= 12 /\ Len(prevBlock) >= 12 /\ TrendBelow(recent, prevBlock)
        THEN <<[prefix |-> "pm", severity |-> "info",
                title |-> "Predictive signal: coherence degrading"]>>
        ELSE <<>>

\* nextAlerts.reverse()
Reverse(s) == [i \in 1..Len(s) |-> s[Len(s) + 1 - i]]

\* [...nextAlerts.reverse(), ...a] without the slice
PrependUncapped(news, a, cap) == news \o a

\* [...a, ...nextAlerts.reverse()]: the new alerts at the end
PrependAtEnd(news, a, cap) == SubSeq(a \o news, 1, Min(cap, Len(news) + Len(a)))

\* [...news, ...a].slice(0, cap)
Prepend(news, a, cap) == SubSeq(news \o a, 1, Min(cap, Len(news) + Len(a)))

\* [...prev.slice(0, 89), p]: the newest point dropped, not the oldest
AppendDropNewest(prev, p) == Append(SubSeq(prev, 1, Min(Len(prev), 89)), p)

\* [...prev, p]: no point dropped
AppendKeepingAll(prev, p) == Append(prev, p)

\* [...prev.slice(-89), p]
AppendPoint(prev, p) == Append(SliceLast(prev, 89), p)

\* the t1 values of the last 24 points of a window, and its length: what the
\* predictive hint reads
HistTail(hist) == [i \in 1..Len(SliceLast(hist, 24)) |-> SliceLast(hist, 24)[i].t1]

\* ------------------------------------------------------------ bounds and inputs

\* makeInitialSeries(90)
SeriesLen == 90

\* .slice(0, 10) of the timer-driven dashboard's alert log
TimerAlertCap == 10

\* .slice(0, 50) of the stream-driven dashboard's alert log
StreamAlertCap == 50

\* user operations, clock ticks and freely chosen samples explored per run
MaxFree == 3

\* state updates React may hold before it renders
MaxPending == 2

\* samples of a fixed kind fed before the free steps, to fill the alert log
TimerPrologue == 4

StreamPrologue == 16

\* Date.now() when the page loads, in ms
StartTime == 200000

Zeros == ByKey(LAMBDA k : 0)

\* outcomes of the random draws of one nextPoint call (rnd.n: randn() in
\* hundredths, rnd.u: Math.random() in thousandths) and of the id suffix
\* Math.floor(Math.random() * 1e9) of the tick (rnd.r)
Still == [n |-> Zeros, u |-> ByKey(LAMBDA k : 500), r |-> 123456789]

Rough == [n |-> ByKey(LAMBDA k : 250), u |-> ByKey(LAMBDA k : 999), r |-> 42]

Draws == {Still, Rough}

\* the randn() values of makeInitialSeries: no noise
Quiet == [j \in 1..SeriesLen |-> Zeros]

SeedNoises == {Quiet}

\* the samples the feed may send at time ts: the latest rendered values again,
\* every metric far off, a warm cryostat, a collapsed T1
Calm(latest, ts) == [latest EXCEPT !.ts = ts]

Storm(latest, ts) ==
    [ts |-> ts, t1 |-> 4000, t2 |-> 3000, gate1q |-> 99000, gate2q |-> 97500,
     readout |-> 4000, temp |-> 3500, vibration |-> 2500, em |-> 2500]

Hot(latest, ts) == [latest EXCEPT !.ts = ts, !.temp = 3000]

LowT1(latest, ts) == [latest EXCEPT !.ts = ts, !.t1 = 4000]

\* a record that JSON.parse accepts and that has none of the eight metrics
Incomplete(latest, ts) == [k \in KeySet \cup {"ts"} |-> IF k = "ts" THEN ts ELSE NaN]

Samples(latest, ts) ==
    {Calm(latest, ts), Storm(latest, ts), Hot(latest, ts), LowT1(latest, ts),
     Incomplete(latest, ts)}

\* what Number(text) gives for the text of a threshold field, in thousandths:
\* 0 for the empty text, 3 for "3", NaN for a text that is no number
Entries == {0, 3000, NaN}

Intensities == {8, 10, 14}

\* ------------------------------------------------------------ dashboards

VARIABLES
    dash,            \* "timer": components/quantum/charts.tsx, "stream": the EventSource dashboard
    mounted,         \* the mount effects have run
    series,          \* rendered state: the sample buffer
    paused,
    intensity,       \* in tenths
    thresholds,      \* [driftWarn, driftCritical] in thousandths
    thresholdInputs, \* stream dashboard: the numbers typed in the two fields
    streamStatus,
    es,              \* stream dashboard: the EventSource ("none", "connecting", "open", "closed")
    driftRef,        \* driftRef.current
    drift,           \* rendered state: the exposed drift score
    alerts,          \* rendered state: the alert log, head first
    alertSeqRef,     \* alertSeqRef.current
    now,             \* Date.now()
    queue,           \* state updates dispatched and not yet rendered, oldest first
    ops,             \* history: number of samples accepted and manual actions run
    evals,           \* history: the samples whose processing ended in the last step
    free,            \* steps left to explore freely
    script           \* scripted samples left to feed

vars == <<dash, mounted, series, paused, intensity, thresholds, thresholdInputs,
          streamStatus, es, driftRef, drift, alerts, alertSeqRef, now, queue,
          ops, evals, free, script>>

\* the health score the dashboard shows, in tenths
health == IF Len(series) > 0 THEN computeHealthScore(series[Len(series)]) ELSE 0

AlertCap == IF dash = "timer" THEN TimerAlertCap ELSE StreamAlertCap

\* const alpha = clamp(0.06 + (intensity - 1.0) * 0.03, 0.03, 0.14), in thousandths
StreamAlpha(i) == clamp(60 + 3 * (i - 10), 30, 140)

RECURSIVE WarmUpTo(_, _, _, _)
\* for (const p of seed) ds = updateDriftState(ds, p, 0.06), over seed[i..last]
WarmUpTo(ds, seed, i, last) ==
    IF i > last THEN ds
    ELSE WarmUpTo(updateDriftState(ds, seed[i], 3, 50), seed, i + 1, last)

RECURSIVE WarmUp(_, _, _)
\* the same loop from the i-th point on, ten points at a time (testing the
\* result makes TLC compute each state before it goes on)
WarmUp(ds, seed, i) ==
    IF i > Len(seed) THEN ds
    ELSE LET t == WarmUpTo(ds, seed, i, Min(i + 9, Len(seed)))
         IN  IF t.ema.t1 \in Int THEN WarmUp(t, seed, i + 10) ELSE t

\* the alert objects of one sample, in push order
MakeAlerts(protos, ts, suffix, n) ==
    [i \in 1..Len(protos) |->
        [id       |-> <<protos[i].prefix, ts, suffix[i]>>,
         ts       |-> ts,
         severity |-> protos[i].severity,
         title    |-> protos[i].title,
         born     |-> n]]

\* history: what the processing of sample n read (the drift state before, the
\* smoothing factor, the thresholds, the window of the trend rule) and made
EvalRecord(n, p, before, alpha, dscore, th, emitted, hist) ==
    [born |-> n, p |-> p, before |-> before, alpha |-> alpha, dscore |-> dscore,
     th |-> th, emitted |-> emitted, histLen |-> Len(hist), histTail |-> HistTail(hist)]

Repeat(x, n) == [i \in 1..n |-> x]

\* the updater the interval callback hands to setSeries, from setAlerts on
TickAlerts(prev, p, ref, ds, dscore, th, n, news) ==
    [ds |-> ds, dscore |-> dscore, next |-> AppendPoint(prev, p), news |-> news,
     eval |-> EvalRecord(n, p, ref, <<2, 25>>, dscore, th, news, prev)]

FirstOf(s) == SubSeq(s, 1, Min(1, Len(s)))

\* the rules as one if / else-if chain: only the first that holds makes an alert
TickFirstRuleOnly(prev, p, ref, ds, dscore, th, r, n) ==
    TickAlerts(prev, p, ref, ds, dscore, th, n,
               MakeAlerts(FirstOf(DriftRule(dscore, th) \o TempRule(p) \o EnvRule(p)
                                     \o TrendRule(prev)),
                          p.ts, Repeat(r, 4), n))

\* ... from the rules on (a tick pushes at most four alerts)
TickScored(prev, p, ref, ds, dscore, th, r, n) ==
    TickAlerts(prev, p, ref, ds, dscore, th, n,
               MakeAlerts(DriftRule(dscore, th) \o TempRule(p) \o EnvRule(p) \o TrendRule(prev),
                          p.ts, Repeat(r, 4), n))

\* ... from the score on, the point scored against the drift state as it was
\* before the update
TickDriftStale(prev, p, ref, ds, th, r, n) ==
    TickScored(prev, p, ref, ds, driftScore(IF ref # Null THEN ref ELSE ds, p), th, r, n)

\* ... from the score on
TickDrift(prev, p, ref, ds, th, r, n) ==
    TickScored(prev, p, ref, ds, driftScore(ds, p), th, r, n)

\* ... from the drift update on
TickPoint(prev, p, ref, th, r, n) ==
    IF ref # Null
    THEN TickDrift(prev, p, ref, updateDriftState(ref, p, 2, 25), th, r, n)
    ELSE TickDrift(prev, p, ref, initDriftState(p), th, r, n)

\* the whole updater
RunTick(prev, ref, th, inten, injectSpike, rnd, n) ==
    TickPoint(prev, nextPoint(prev[Len(prev)], inten, injectSpike, rnd), ref, th, rnd.r, n)

\* es.onmessage up to its setSeries call, from the rules on
MessageAlerts(p, ref, a, ds, dscore, seq, th, n, protos) ==
    [ds |-> ds, seq |-> seq + Len(protos),
     update |-> [kind |-> "sample", p |-> p, before |-> ref, alpha |-> <<a, 1000>>,
                 dscore |-> dscore, th |-> th, born |-> n,
                 news |-> MakeAlerts(protos, p.ts, [i \in 1..Len(protos) |-> seq + i - 1], n)]]

\* ... from the score on
MessageScored(p, ref, a, ds, dscore, seq, th, n) ==
    MessageAlerts(p, ref, a, ds, dscore, seq, th, n,
                  DriftRule(dscore, th) \o TempRule(p) \o EnvRule(p))

\* ... from the drift update on
MessageDrift(p, ref, a, ds, seq, th, n) ==
    MessageScored(p, ref, a, ds, driftScore(ds, p), seq, th, n)

\* ... from the smoothing factor on
MessageAlpha(p, ref, a, seq, th, n) ==
    IF ref # Null
    THEN MessageDrift(p, ref, a, updateDriftState(ref, p, a, 1000), seq, th, n)
    ELSE MessageDrift(p, ref, a, initDriftState(p), seq, th, n)

\* the whole of it
RunMessage(p, ref, seq, th, inten, n) == MessageAlpha(p, ref, StreamAlpha(inten), seq, th, n)

\* the setAlerts call of a click handler: none, setAlerts([]) or a manual alert
NoAlertUpdate == [kind |-> "none"]

ClearUpdate == [kind |-> "clear"]

ManualUpdate(prefix, severity, title, n) ==
    [kind |-> "add",
     alert |-> [id |-> <<prefix, now>>, ts |-> now, severity |-> severity,
                title |-> title, born |-> n]]

ApplyAlertUpdate(a, upd) ==
    CASE upd.kind = "none"  -> a
      [] upd.kind = "clear" -> <<>>
      [] upd.kind = "add"   -> Prepend(<<upd.alert>>, a, TimerAlertCap)

\* the state updates a click handler dispatches
Click(p, i, th, inputs, upd) ==
    [kind |-> "click", paused |-> p, intensity |-> i, thresholds |-> th,
     thresholdInputs |-> inputs, upd |-> upd]

\* a click is being handled: React renders before anything else runs
Sync == Len(queue) > 0 /\ queue[Len(queue)].kind = "click"

\* the rendered state and the refs as one record; late holds the setAlerts
\* calls made while React renders, which it applies after those dispatched
Cur ==
    [series |-> series, drift |-> drift, alerts |-> alerts, driftRef |-> driftRef,
     alertSeqRef |-> alertSeqRef, paused |-> paused, intensity |-> intensity,
     thresholds |-> thresholds, thresholdInputs |-> thresholdInputs,
     late |-> <<>>, evals |-> <<>>]

\* a queued tick whose updater runs in the render, r its outcome
ApplyTick(st, r) ==
    [st EXCEPT !.series = r.next, !.drift = r.dscore, !.driftRef = r.ds,
               !.late = Append(st.late, Reverse(r.news)),
               !.evals = Append(st.evals, r.eval)]

\* the setSeries updater of es.onmessage, from its setAlerts call on
ApplySampleAlerts(st, u, next, news, seq) ==
    [st EXCEPT !.series = next, !.drift = u.dscore, !.alertSeqRef = seq,
               !.late = IF Len(news) > 0 THEN Append(st.late, Reverse(news)) ELSE st.late,
               !.evals = Append(st.evals, EvalRecord(u.born, u.p, u.before, u.alpha, u.dscore,
                                                     u.th, news, next))]

\* ... from the trend rule on
ApplySampleTrend(st, u, next, pm) ==
    ApplySampleAlerts(st, u, next, u.news \o pm, st.alertSeqRef + Len(pm))

\* the whole updater
ApplySample(st, u, next) ==
    ApplySampleTrend(st, u, next,
                     MakeAlerts(TrendRule(next), u.p.ts, <<st.alertSeqRef>>, u.born))

\* one queued update applied to st
ApplyOne(st, u) ==
    CASE u.kind = "values" ->
           [st EXCEPT !.series = u.next, !.drift = u.dscore,
                      !.alerts = Prepend(Reverse(u.news), st.alerts, TimerAlertCap),
                      !.evals = Append(st.evals, u.eval)]
      [] u.kind = "tick" ->
           ApplyTick(st, RunTick(st.series, st.driftRef, u.th, u.intensity,
                                 u.injectSpike, u.rnd, u.born))
      [] u.kind = "sample" ->
           ApplySample(st, u, AppendPoint(st.series, u.p))
      [] u.kind = "click" ->
           [st EXCEPT !.alerts = ApplyAlertUpdate(st.alerts, u.upd),
                      !.paused = u.paused, !.intensity = u.intensity,
                      !.thresholds = u.thresholds, !.thresholdInputs = u.thresholdInputs]

RECURSIVE ApplyQueue(_, _, _)
\* the queued updates from the i-th on, applied in dispatch order
ApplyQueue(st, q, i) ==
    IF i > Len(q) THEN st
    ELSE LET t == ApplyOne(st, q[i])
         IN  IF Len(t.series) >= 0 THEN ApplyQueue(t, q, i + 1) ELSE t

RECURSIVE ApplyLate(_, _, _, _)
\* setAlerts((a) => [...nextAlerts.reverse(), ...a].slice(0, cap)) for the
\* batches of late from the i-th on
ApplyLate(a, late, i, cap) ==
    IF i > Len(late) THEN a ELSE ApplyLate(Prepend(late[i], a, cap), late, i + 1, cap)

\* a scripted sample while the script lasts, then any step within the budget
Budget(scripted) ==
    IF script > 0
    THEN scripted /\ script' = script - 1 /\ free' = free
    ELSE free > 0 /\ free' = free - 1 /\ script' = script

Unbudgeted == UNCHANGED <<free, script>>

Init ==
    /\ dash \in {"timer", "stream"}
    /\ mounted = FALSE
    /\ \E noise \in SeedNoises :
          series = IF dash = "timer" THEN makeInitialSeries(SeriesLen, StartTime, noise)
                   ELSE <<>>
    /\ paused = FALSE
    /\ intensity = 10
    /\ thresholds = [driftWarn |-> 1600, driftCritical |-> 2200]
    /\ thresholdInputs = [driftWarn |-> 1600, driftCritical |-> 2200]
    /\ streamStatus = "connecting"
    /\ es = "none"
    /\ driftRef = Null
    /\ drift = 0
    /\ alerts = <<>>
    /\ alertSeqRef = 0
    /\ now = StartTime
    /\ queue = <<>>
    /\ ops = 0
    /\ evals = <<>>
    /\ free = MaxFree
    /\ script \in {0, IF dash = "timer" THEN TimerPrologue ELSE StreamPrologue}

\* the warm-up of the mount effect, seed the buffer it reads
MountWith(seed, ds) ==
    /\ series' = seed
    /\ driftRef' = ds
    /\ drift' = driftScore(ds, seed[Len(seed)])

\* the mount effects: the warm-up of the drift model, and in the stream
\* dashboard the seed of the buffer and the first run of the stream effect
Mount ==
    /\ ~mounted
    /\ mounted' = TRUE
    /\ \E noise \in SeedNoises :
          \E seed \in {IF dash = "timer" THEN series
                       ELSE makeInitialSeries(SeriesLen, now, noise)} :
             MountWith(seed, WarmUp(initDriftState(seed[1]), seed, 1))
    /\ es' = IF dash = "stream" THEN "connecting" ELSE es
    /\ evals' = <<>>
    /\ Unbudgeted
    /\ UNCHANGED <<dash, paused, intensity, thresholds, thresholdInputs, streamStatus,
                   alerts, alertSeqRef, now, queue, ops>>

\* the interval callback, its updater run by React at once
TickEager ==
    /\ dash = "timer" /\ mounted /\ ~paused /\ queue = <<>>
    /\ \E injectSpike \in BOOLEAN, rnd \in Draws :
          /\ Budget(injectSpike /\ rnd = Rough)
          /\ \E r \in {RunTick(series, driftRef, thresholds, intensity, injectSpike, rnd, ops + 1)} :
                /\ driftRef' = r.ds
                /\ queue' = <<[kind |-> "values", next |-> r.next, dscore |-> r.dscore,
                               news |-> r.news, eval |-> r.eval]>>
    /\ ops' = ops + 1
    /\ now' = now + 2000
    /\ evals' = <<>>
    /\ UNCHANGED <<dash, mounted, series, paused, intensity, thresholds, thresholdInputs,
                   streamStatus, es, drift, alerts, alertSeqRef>>

\* the interval callback, its updater left for the next render
TickDeferred ==
    /\ dash = "timer" /\ mounted /\ ~paused /\ ~Sync /\ Len(queue) < MaxPending
    /\ \E injectSpike \in BOOLEAN, rnd \in Draws :
          /\ Budget(FALSE)
          /\ queue' = Append(queue, [kind |-> "tick", th |-> thresholds, intensity |-> intensity,
                                     injectSpike |-> injectSpike, rnd |-> rnd, born |-> ops + 1])
    /\ ops' = ops + 1
    /\ now' = now + 2000
    /\ evals' = <<>>
    /\ UNCHANGED <<dash, mounted, series, paused, intensity, thresholds, thresholdInputs,
                   streamStatus, es, driftRef, drift, alerts, alertSeqRef>>

\* the stream effect run after every render, so that a closed EventSource is
\* replaced by a new one
EffectsReconnecting(st) ==
    IF dash = "stream"
       /\ (st.paused # paused \/ st.intensity # intensity \/ st.thresholds # thresholds
             \/ es = "closed")
    THEN /\ streamStatus' = "connecting"
         /\ es' = IF st.paused THEN "none" ELSE "connecting"
    ELSE UNCHANGED <<streamStatus, es>>

\* the stream effect without its paused guard: it opens an EventSource when
\* the dashboard is paused too
EffectsIgnoringPause(st) ==
    IF dash = "stream"
       /\ (st.paused # paused \/ st.intensity # intensity \/ st.thresholds # thresholds)
    THEN /\ streamStatus' = "connecting"
         /\ es' = "connecting"
    ELSE UNCHANGED <<streamStatus, es>>

\* the stream effect without its setStreamStatus("connecting") calls
EffectsKeepingStatus(st) ==
    IF dash = "stream"
       /\ (st.paused # paused \/ st.intensity # intensity \/ st.thresholds # thresholds)
    THEN /\ streamStatus' = streamStatus
         /\ es' = IF st.paused THEN "none" ELSE "connecting"
    ELSE UNCHANGED <<streamStatus, es>>

\* the effects that run after a render that replaced (paused, intensity,
\* thresholds) by those of st: the stream effect closes its EventSource and,
\* unless the dashboard is paused, opens a new one
Effects(st) ==
    IF dash = "stream"
       /\ (st.paused # paused \/ st.intensity # intensity \/ st.thresholds # thresholds)
    THEN /\ streamStatus' = "connecting"
         /\ es' = IF st.paused THEN "none" ELSE "connecting"
    ELSE UNCHANGED <<streamStatus, es>>

\* st becomes the rendered state and nothing is left queued
Commit(st) ==
    /\ series' = st.series
    /\ drift' = st.drift
    /\ alerts' = ApplyLate(st.alerts, st.late, 1, AlertCap)
    /\ driftRef' = st.driftRef
    /\ alertSeqRef' = st.alertSeqRef
    /\ paused' = st.paused
    /\ intensity' = st.intensity
    /\ thresholds' = st.thresholds
    /\ thresholdInputs' = st.thresholdInputs
    /\ evals' = st.evals
    /\ queue' = <<>>
    /\ Effects(st)

\* React renders the queued updates
Render ==
    /\ Len(queue) > 0
    /\ Commit(ApplyQueue(Cur, queue, 1))
    /\ Unbudgeted
    /\ UNCHANGED <<dash, mounted, now, ops>>

\* es.onopen
EsOpen ==
    /\ dash = "stream" /\ es = "connecting" /\ ~Sync
    /\ es' = "open"
    /\ streamStatus' = "live"
    /\ evals' = <<>>
    /\ Unbudgeted
    /\ UNCHANGED <<dash, mounted, series, paused, intensity, thresholds, thresholdInputs,
                   driftRef, drift, alerts, alertSeqRef, now, queue, ops>>

\* es.onerror that also drops the drift state
EsErrorDropsState ==
    /\ dash = "stream" /\ es \in {"connecting", "open"} /\ ~Sync
    /\ Budget(FALSE)
    /\ streamStatus' = "error"
    /\ es' = "closed"
    /\ driftRef' = Null
    /\ evals' = <<>>
    /\ UNCHANGED <<dash, mounted, series, paused, intensity, thresholds, thresholdInputs,
                   drift, alerts, alertSeqRef, now, queue, ops>>

\* es.onerror
EsError ==
    /\ dash = "stream" /\ es \in {"connecting", "open"} /\ ~Sync
    /\ Budget(FALSE)
    /\ streamStatus' = "error"
    /\ es' = "closed"
    /\ evals' = <<>>
    /\ UNCHANGED <<dash, mounted, series, paused, intensity, thresholds, thresholdInputs,
                   driftRef, drift, alerts, alertSeqRef, now, queue, ops>>

\* es.onmessage with a sample the feed stamped with the current time
EsMessage ==
    /\ dash = "stream" /\ es = "open" /\ ~Sync /\ Len(queue) < MaxPending
    /\ \E p \in Samples(series[Len(series)], now) :
          /\ Budget(p = Storm(series[Len(series)], now) /\ queue = <<>>)
          /\ \E r \in {RunMessage(p, driftRef, alertSeqRef, thresholds, intensity, ops + 1)} :
                /\ driftRef' = r.ds
                /\ alertSeqRef' = r.seq
                /\ queue' = Append(queue, r.update)
    /\ ops' = ops + 1
    /\ evals' = <<>>
    /\ UNCHANGED <<dash, mounted, series, paused, intensity, thresholds, thresholdInputs,
                   streamStatus, es, drift, alerts, now>>

\* es.onmessage with data that JSON.parse rejects or that parses to null
EsMalformed ==
    /\ dash = "stream" /\ es = "open" /\ ~Sync
    /\ Budget(FALSE)
    /\ evals' = <<>>
    /\ UNCHANGED <<dash, mounted, series, paused, intensity, thresholds, thresholdInputs,
                   streamStatus, es, driftRef, drift, alerts, alertSeqRef, now, queue, ops>>

\* a click handler that dispatches the update u and leaves the refs alone
Dispatch(u) ==
    /\ mounted /\ ~Sync
    /\ Budget(FALSE)
    /\ queue' = Append(queue, u)
    /\ evals' = <<>>
    /\ UNCHANGED <<dash, mounted, series, paused, intensity, thresholds, thresholdInputs,
                   streamStatus, es, drift, alerts, alertSeqRef, now>>

\* the Pause / Resume button
TogglePause ==
    /\ Dispatch(Click(~paused, intensity, thresholds, thresholdInputs, NoAlertUpdate))
    /\ UNCHANGED <<driftRef, ops>>

\* the Clear Alerts button
ClearAlerts ==
    /\ Dispatch(Click(paused, intensity, thresholds, thresholdInputs, ClearUpdate))
    /\ UNCHANGED <<driftRef, ops>>

\* the Low / Med / High buttons
SetIntensity ==
    /\ \E i \in Intensities \ {intensity} :
          Dispatch(Click(paused, i, thresholds, thresholdInputs, NoAlertUpdate))
    /\ UNCHANGED <<driftRef, ops>>

\* the bounds of the two threshold fields, in thousandths
ThresholdLo(field) == IF field = "driftWarn" THEN 800 ELSE 1000

ThresholdHi(field) == IF field = "driftWarn" THEN 4000 ELSE 5000

ThresholdFields == {"driftWarn", "driftCritical"}

\* timer dashboard: onChange of a threshold field
ChangeThreshold ==
    /\ dash = "timer"
    /\ \E field \in ThresholdFields, v \in Entries :
          Dispatch(Click(paused, intensity,
                         [thresholds EXCEPT
                             ![field] = clamp(v, ThresholdLo(field), ThresholdHi(field))],
                         thresholdInputs, NoAlertUpdate))
    /\ UNCHANGED <<driftRef, ops>>

\* stream dashboard: onChange of a threshold field
TypeThreshold ==
    /\ dash = "stream"
    /\ \E field \in ThresholdFields : \E v \in Entries \ {thresholdInputs[field]} :
          Dispatch(Click(paused, intensity, thresholds,
                         [thresholdInputs EXCEPT ![field] = v], NoAlertUpdate))
    /\ UNCHANGED <<driftRef, ops>>

\* stream dashboard: onBlur of a threshold field
BlurThreshold ==
    /\ dash = "stream"
    /\ \E field \in ThresholdFields :
          Dispatch(Click(paused, intensity,
                         [thresholds EXCEPT
                             ![field] = clamp(thresholdInputs[field],
                                              ThresholdLo(field), ThresholdHi(field))],
                         thresholdInputs, NoAlertUpdate))
    /\ UNCHANGED <<driftRef, ops>>

\* the buttons of the timer dashboard that only log an alert: Queue
\* Recalibration, Run Diagnostics, Send Test Alert
ManualButtons ==
    {<<"info", "info", "Recalibration queued">>,
     <<"info2", "info", "Diagnostics started">>,
     <<"test", "warn", "Test alert">>}

ManualAlert ==
    /\ dash = "timer"
    /\ \E b \in ManualButtons :
          Dispatch(Click(paused, intensity, thresholds, thresholdInputs,
                         ManualUpdate(b[1], b[2], b[3], ops + 1)))
    /\ ops' = ops + 1
    /\ UNCHANGED driftRef

\* timer dashboard: Reset Baseline
ResetBaseline ==
    /\ dash = "timer"
    /\ driftRef' = initDriftState(series[Len(series)])
    /\ Dispatch(Click(paused, intensity, thresholds, thresholdInputs,
                      ManualUpdate("reset", "info", "Drift baseline reset", ops + 1)))
    /\ ops' = ops + 1

\* a millisecond passes
TimePasses ==
    /\ ~Sync
    /\ Budget(FALSE)
    /\ now' = now + 1
    /\ evals' = <<>>
    /\ UNCHANGED <<dash, mounted, series, paused, intensity, thresholds, thresholdInputs,
                   streamStatus, es, driftRef, drift, alerts, alertSeqRef, queue, ops>>

Next ==
    \/ Mount
    \/ TickEager
    \/ TickDeferred
    \/ Render
    \/ EsOpen
    \/ EsError
    \/ EsMessage
    \/ EsMalformed
    \/ TogglePause
    \/ ClearAlerts
    \/ SetIntensity
    \/ ChangeThreshold
    \/ TypeThreshold
    \/ BlurThreshold
    \/ ManualAlert
    \/ ResetBaseline
    \/ TimePasses

Spec == Init /\ [][Next]_vars

\* ------------------------------------------------------------ the rules on chosen inputs
\*
\* The processing of one sample, as the two dashboards run it, applied to
\* histories, drift states and points drawn from bounded sets.

\* samples processed per run
RuleSteps == 2

\* the lengths of the history the first sample meets
HistoryLens == {0, 11, 12, 20, 23, 24, 25, SeriesLen}

\* t1 of the j-th of len points: all 95; the last twelve lower by 10, by
\* exactly 1.4, by 1.41; the last twelve alternately 95 and 90
HistoryShapes == {"flat", "drop10", "drop140", "drop141", "saw"}

ShapeT1(shape, j, len) ==
    CASE shape = "flat" \/ j <= len - 12 -> base.t1
      [] shape = "drop10"  -> base.t1 - 1000
      [] shape = "drop140" -> base.t1 - 140
      [] shape = "drop141" -> base.t1 - 141
      [] OTHER -> IF j % 2 = 0 THEN base.t1 ELSE base.t1 - 500

BasePoint(ts) ==
    [ts |-> ts, t1 |-> base.t1, t2 |-> base.t2, gate1q |-> base.gate1q,
     gate2q |-> base.gate2q, readout |-> base.readout, temp |-> base.temp,
     vibration |-> base.vibration, em |-> base.em]

History(len, shape) ==
    [j \in 1..len |-> [BasePoint(StartTime - (len - j) * 2000) EXCEPT
                          !.t1 = ShapeT1(shape, j, len)]]

\* drift states whose baselines are those of BasePoint: fresh, and warmed up
\* on a flat history
RuleStates ==
    {initDriftState(BasePoint(0)),
     WarmUp(initDriftState(BasePoint(0)), History(SeriesLen, "flat"), 1)}

\* the points to process: at the baselines, T1 collapsed to 40, every metric
\* far off, a warm cryostat, vibration at 2.4, em at 2.0, both just below 2.0
RulePoints(ts) ==
    {BasePoint(ts), [BasePoint(ts) EXCEPT !.t1 = 4000],
     Storm(BasePoint(ts), ts), Hot(BasePoint(ts), ts),
     [BasePoint(ts) EXCEPT !.vibration = 2400],
     [BasePoint(ts) EXCEPT !.em = 2000],
     [BasePoint(ts) EXCEPT !.vibration = 1999, !.em = 1999]}

InitRules ==
    /\ dash \in {"timer", "stream"}
    /\ mounted = TRUE
    /\ \E len \in HistoryLens, shape \in HistoryShapes : series = History(len, shape)
    /\ paused = FALSE
    /\ intensity = 10
    /\ thresholds = [driftWarn |-> 1600, driftCritical |-> 2200]
    /\ thresholdInputs = [driftWarn |-> 1600, driftCritical |-> 2200]
    /\ streamStatus = "live"
    /\ es = IF dash = "stream" THEN "open" ELSE "none"
    /\ driftRef \in RuleStates
    /\ drift = 0
    /\ alerts = <<>>
    /\ alertSeqRef = 0
    /\ now = StartTime
    /\ queue = <<>>
    /\ ops = 0
    /\ evals = <<>>
    /\ free = RuleSteps
    /\ script = 0

\* the interval callback's updater from the drift update on, for a point p
\* in place of nextPoint's, and the render
EvaluateTick ==
    /\ dash = "timer" /\ free > 0
    /\ \E p \in RulePoints(now + 2000) :
          Commit(ApplyTick(Cur, TickPoint(series, p, driftRef, thresholds, 7, ops + 1)))
    /\ ops' = ops + 1
    /\ now' = now + 2000
    /\ free' = free - 1
    /\ UNCHANGED <<dash, mounted, script>>

\* es.onmessage for a point p, and the render
EvaluateSample ==
    /\ dash = "stream" /\ free > 0
    /\ \E p \in RulePoints(now + 2000) :
          \E r \in {RunMessage(p, driftRef, alertSeqRef, thresholds, intensity, ops + 1)} :
             Commit(ApplyOne([Cur EXCEPT !.driftRef = r.ds, !.alertSeqRef = r.seq], r.update))
    /\ ops' = ops + 1
    /\ now' = now + 2000
    /\ free' = free - 1
    /\ UNCHANGED <<dash, mounted, script>>

NextRules ==
    \/ EvaluateTick
    \/ EvaluateSample

SpecRules == InitRules /\ [][NextRules]_vars

\* ------------------------------------------------------------ the drift model and the generator on chosen inputs
\*
\* updateDriftState, driftScore and nextPoint applied to one-point buffers,
\* drift states and draws taken from bounded sets: a drift state is updated
\* with the point it was made from, and the two dashboards process points that
\* the generator makes or the feed sends.

\* samples processed per run
CoreSteps == 2

\* updates with the unchanging point per run
ConstSteps == 30

\* a point far outside every range
FarOut(ts) ==
    [ts |-> ts, t1 |-> 20000, t2 |-> 500, gate1q |-> 101000, gate2q |-> 90000,
     readout |-> 9000, temp |-> 10000, vibration |-> 5000, em |-> 0]

\* the points a run starts from: at the baselines, every metric far off, far
\* outside the ranges
CorePoints == {BasePoint(StartTime), Storm(BasePoint(StartTime), StartTime), FarOut(StartTime)}

\* the drift states of a run that starts from p: initDriftState(p) and, in the
\* stream dashboard, whose feed may repeat a point for as long as it likes,
\* the state the updates with p tend to, every resVar 0
CoreStates(d, p) ==
    IF d = "stream" THEN {initDriftState(p), [initDriftState(p) EXCEPT !.resVar = Zeros]}
    ELSE {initDriftState(p)}

\* smoothing factors alpha = num / den in (0, 1]
Alphas == {<<3, 100>>, <<2, 25>>, <<1, 2>>, <<1, 1>>}

\* draws of one nextPoint call: every randn() at -4, every Math.random() at 0
Wild == [n |-> ByKey(LAMBDA k : -400), u |-> Zeros, r |-> 7]

CoreDraws == {Rough, Wild}

\* a point better than every range allows, but for em at 0.297
Prime(ts) ==
    [ts |-> ts, t1 |-> 12000, t2 |-> 9000, gate1q |-> 99950, gate2q |-> 99800,
     readout |-> 0, temp |-> 1200, vibration |-> 0, em |-> 297]

\* the points the feed sends at time ts
FeedPoints(ts) == {BasePoint(ts), Storm(BasePoint(ts), ts), FarOut(ts), Prime(ts)}

InitCore ==
    /\ dash \in {"timer", "stream"}
    /\ mounted = TRUE
    /\ \E p \in CorePoints :
          /\ series = <<p>>
          /\ driftRef \in CoreStates(dash, p)
    /\ paused = FALSE
    /\ intensity \in {8, 14}
    /\ thresholds \in {[driftWarn |-> 1600, driftCritical |-> 2200],
                       [driftWarn |-> 1600, driftCritical |-> 4800]}
    /\ thresholdInputs = thresholds
    /\ streamStatus = "live"
    /\ es = IF dash = "stream" THEN "open" ELSE "none"
    /\ drift = 0
    /\ alerts = <<>>
    /\ alertSeqRef = 0
    /\ now = StartTime
    /\ queue = <<>>
    /\ ops = 0
    /\ evals = <<>>
    /\ free = CoreSteps
    /\ script = ConstSteps

\* state = updateDriftState(state, p, alpha) and driftScore(state, p), for the
\* point p the run started from
UpdateSame ==
    /\ script > 0 /\ free = CoreSteps
    /\ \E a \in Alphas :
          \E ds \in {updateDriftState(driftRef, series[1], a[1], a[2])} :
             /\ driftRef' = ds
             /\ drift' = driftScore(ds, series[1])
    /\ script' = script - 1
    /\ evals' = <<>>
    /\ UNCHANGED <<dash, mounted, series, paused, intensity, thresholds, thresholdInputs,
                   streamStatus, es, alerts, alertSeqRef, now, queue, ops, free>>

\* the interval callback's updater, and the render
Generate ==
    /\ dash = "timer" /\ free > 0
    /\ \E injectSpike \in BOOLEAN, rnd \in CoreDraws :
          \E r \in {RunTick(series, driftRef, thresholds, intensity, injectSpike, rnd, ops + 1)} :
             Commit(ApplyTick(Cur, r))
    /\ ops' = ops + 1
    /\ now' = now + 2000
    /\ free' = free - 1
    /\ UNCHANGED <<dash, mounted, script>>

\* es.onmessage for a point of the feed, and the render
Feed ==
    /\ dash = "stream" /\ free > 0
    /\ \E p \in FeedPoints(now + 2000) :
          \E r \in {RunMessage(p, driftRef, alertSeqRef, thresholds, intensity, ops + 1)} :
             Commit(ApplyOne([Cur EXCEPT !.driftRef = r.ds, !.alertSeqRef = r.seq], r.update))
    /\ ops' = ops + 1
    /\ now' = now + 2000
    /\ free' = free - 1
    /\ UNCHANGED <<dash, mounted, script>>

NextCore ==
    \/ UpdateSame
    \/ Generate
    \/ Feed

SpecCore == InitCore /\ [][NextCore]_vars

\* ------------------------------------------------------------ the score of tiny variances
\*
\* driftScore on drift states and points whose numbers are in units of 1e-10
\* (ema, resMean, the metrics) and 1e-20 (resVar), where the guard of zScore
\* against 1e-9 decides.

\* 1e-9 in sixteenths of 1e-10
TinyEps16 == 160

\* scores taken per run
TinySteps == 2

\* zScore with the guard on the variance: 0 for every resVar below 1e-9, which
\* every variance of this scale is
zScoreTinyOnVariance(residual, mean, stdev16) == 0

\* zScore(residual, mean, stdev) in thousandths, stdev in sixteenths of 1e-10
zScoreTiny(residual, mean, stdev16) ==
    IF stdev16 > TinyEps16
    THEN LET d == residual - mean
         IN  IF d >= 0 THEN (d * 16000) \div stdev16
             ELSE -((-d * 16000) \div stdev16)
    ELSE 0

\* z of one key in driftScore
ZOfTiny(state, p, k) ==
    Abs(zScoreTiny(p[k] - state.ema[k], state.resMean[k], ISqrt(state.resVar[k] * 256)))

\* driftScore(state, p) in thousandths
driftScoreTiny(state, p) ==
    LET z     == ByKey(LAMBDA k : ZOfTiny(state, p, k))
        w     == ByKey(LAMBDA k : weights(k))
        one   == ByKey(LAMBDA k : 1)
    IN  SumOver(w, z, Len(KEYS)) \div Max(1, SumOver(w, one, Len(KEYS)))

\* resVar of every key: 0, 1e-20, 1e-18, 1.21e-18, 1e-16, 1e-14, 4e-14
TinyVariances == {0, 1, 100, 121, 10000, 1000000, 4000000}

\* resMean of every key
TinyMeans == {0, 7}

\* the point minus the baseline, for every key
TinyResiduals == {0, 7, 1000, -1000}

TinyState(m, v) ==
    [ema |-> Zeros, resMean |-> ByKey(LAMBDA k : m), resVar |-> ByKey(LAMBDA k : v)]

TinyPoint(r) == [k \in KeySet \cup {"ts"} |-> IF k = "ts" THEN StartTime ELSE r]

InitTiny ==
    /\ dash = "timer"
    /\ mounted = TRUE
    /\ series = <<>>
    /\ paused = FALSE
    /\ intensity = 10
    /\ thresholds = [driftWarn |-> 1600, driftCritical |-> 2200]
    /\ thresholdInputs = [driftWarn |-> 1600, driftCritical |-> 2200]
    /\ streamStatus = "connecting"
    /\ es = "none"
    /\ \E m \in TinyMeans, v \in TinyVariances : driftRef = TinyState(m, v)
    /\ drift = 0
    /\ alerts = <<>>
    /\ alertSeqRef = 0
    /\ now = StartTime
    /\ queue = <<>>
    /\ ops = 0
    /\ evals = <<>>
    /\ free = TinySteps
    /\ script = 0

\* driftScore(driftRef.current, p) for a point p, kept as the last of series
ScoreTiny ==
    /\ free > 0
    /\ \E r \in TinyResiduals :
          /\ series' = <<TinyPoint(r)>>
          /\ drift' = driftScoreTiny(driftRef, TinyPoint(r))
    /\ free' = free - 1
    /\ ops' = ops + 1
    /\ UNCHANGED <<dash, mounted, paused, intensity, thresholds, thresholdInputs,
                   streamStatus, es, driftRef, alerts, alertSeqRef, now, queue, evals,
                   script>>

NextTiny == ScoreTiny

SpecTiny == InitTiny /\ [][NextTiny]_vars

\* ------------------------------------------------------------ the score of huge values
\*
\* driftScore on drift states and points whose numbers are in units of 1e302
\* (ema, resMean, the metrics), where the largest double decides: a result
\* beyond it is Infinity.  The standard deviations drawn are 0, 0.1, 1 and 10.

\* scores computed per run
HugeSteps == 2

\* Number.MAX_VALUE, 1.797693e308
MaxDouble == 1797693

\* Infinity; -Infinity is its negative
Infinity == 1000000000

\* the double nearest to x
Double(x) == IF x > MaxDouble THEN Infinity ELSE IF x < -MaxDouble THEN -Infinity ELSE x

\* a - b
HugeMinus(a, b) ==
    IF a = NaN \/ b = NaN \/ (Abs(a) = Infinity /\ a = b) THEN NaN
    ELSE IF Abs(a) = Infinity THEN a
    ELSE IF Abs(b) = Infinity THEN -b
    ELSE Double(a - b)

\* d / stdev where stdev, in tenths, may be 0: x / 0 is an infinity, 0 / 0 is NaN
HugeOver(d, stdev10) ==
    IF d = NaN \/ (d = 0 /\ stdev10 = 0) THEN NaN
    ELSE IF Abs(d) = Infinity THEN d
    ELSE IF stdev10 = 0 THEN (IF d > 0 THEN Infinity ELSE -Infinity)
    ELSE IF d >= 0 THEN Double((d * 10) \div stdev10)
    ELSE Double(-((-d * 10) \div stdev10))

\* zScore without its guard
zScoreHugeUnguarded(residual, mean, stdev10) ==
    HugeOver(HugeMinus(residual, mean), stdev10)

\* zScore(residual, mean, stdev), stdev in tenths
zScoreHuge(residual, mean, stdev10) ==
    IF stdev10 > 0 THEN HugeOver(HugeMinus(residual, mean), stdev10) ELSE 0

\* z of one key in driftScore
ZOfHuge(state, p, k) ==
    LET z == zScoreHuge(HugeMinus(p[k], state.ema[k]), state.resMean[k],
                        ISqrt(state.resVar[k]))
    IN  IF z = NaN THEN NaN ELSE Abs(z)

RECURSIVE TotalHuge(_, _)
\* total after the first n keys, in tenths: total += w * z
TotalHuge(z, n) ==
    IF n = 0 THEN 0
    ELSE LET rest == TotalHuge(z, n - 1)
             zn   == z[KEYS[n]]
         IN  IF rest = NaN \/ zn = NaN THEN NaN
             ELSE IF rest = Infinity \/ zn = Infinity
                     \/ weights(KEYS[n]) * zn + rest > 10 * MaxDouble THEN Infinity
             ELSE weights(KEYS[n]) * zn + rest

\* driftScore(state, p)
driftScoreHuge(state, p) ==
    LET z     == ByKey(LAMBDA k : ZOfHuge(state, p, k))
        w     == ByKey(LAMBDA k : weights(k))
        one   == ByKey(LAMBDA k : 1)
        total == TotalHuge(z, Len(KEYS))
    IN  IF total \in {NaN, Infinity} THEN total
        ELSE total \div Max(1, SumOver(w, one, Len(KEYS)))

\* the baselines and the metric values drawn: 0, 3e302, 2e307, 3e307, 1e308,
\* -1e308
HugeBaselines == {0, 1000000, -1000000}

HugeMeans == {0, 3}

HugeValues == {0, 3, 200000, 300000, 1000000, -1000000}

\* resVar in hundredths: 0, 0.01, 1, 100
HugeVariances == {0, 1, 100, 10000}

HugeState(e, m, v) ==
    [ema |-> ByKey(LAMBDA k : e), resMean |-> ByKey(LAMBDA k : m),
     resVar |-> ByKey(LAMBDA k : v)]

InitHuge ==
    /\ dash = "timer"
    /\ mounted = TRUE
    /\ series = <<>>
    /\ paused = FALSE
    /\ intensity = 10
    /\ thresholds = [driftWarn |-> 1600, driftCritical |-> 2200]
    /\ thresholdInputs = thresholds
    /\ streamStatus = "connecting"
    /\ es = "none"
    /\ \E e \in HugeBaselines, m \in HugeMeans, v \in HugeVariances :
          driftRef = HugeState(e, m, v)
    /\ drift = 0
    /\ alerts = <<>>
    /\ alertSeqRef = 0
    /\ now = StartTime
    /\ queue = <<>>
    /\ ops = 0
    /\ evals = <<>>
    /\ free = HugeSteps
    /\ script = 0

\* driftScore(state, p) for the state drawn and a point p whose metrics are x
ScoreHuge ==
    /\ free > 0
    /\ \E x \in HugeValues :
          /\ series' = <<TinyPoint(x)>>
          /\ drift' = driftScoreHuge(driftRef, TinyPoint(x))
    /\ free' = free - 1
    /\ ops' = ops + 1
    /\ UNCHANGED <<dash, mounted, paused, intensity, thresholds, thresholdInputs,
                   streamStatus, es, driftRef, alerts, alertSeqRef, now, queue, evals, script>>

NextHuge == ScoreHuge

SpecHuge == InitHuge /\ [][NextHuge]_vars

\* ------------------------------------------------------------ properties

WithTitle(as, titles) == SelectSeq(as, LAMBDA a : a.title \in titles)

\* the alerts the rules make carry these id prefixes, the manual ones others
FromTick(a) == a.id[1] \in {"crit", "warn", "temp", "env", "pm"}

\* the step renders a Clear Alerts click
Clearing == Sync /\ queue[Len(queue)].upd.kind = "clear"

\* the last k points of series' are the k samples just processed, in the order
\* of their arrival, and before them come the latest points of series, unchanged
C1_Appended(k) ==
    /\ Len(series') = Min(SeriesLen, Len(series) + k)
    /\ \A i \in 1..k : series'[Len(series') - k + i] = evals'[i].p
    /\ \A i \in 1..(Len(series') - k) :
          series'[i] = series[Len(series) - (Len(series') - k) + i]

\* C1: the buffer never holds more than 90 points, and every step of the
\* mounted dashboard changes it only by appending the samples it processed, in
\* arrival order, dropping as many of the oldest points as exceed 90
C1_BufferFifo ==
    /\ [](Len(series) <= SeriesLen)
    /\ [][mounted => C1_Appended(Len(evals'))]_vars

\* a sample was appended to the full buffer and the oldest seed point is gone
C1_Witness ==
    /\ mounted /\ Len(evals) > 0 /\ Len(series) = SeriesLen
    /\ series[SeriesLen] = evals[Len(evals)].p
    /\ series[1].ts > StartTime - (SeriesLen - 1) * 2000

\* C2: the alert log never holds more than its cap (10 timer, 50 stream)
C2_LogCapped == Len(alerts) <= AlertCap

\* the stream log holds the 50 alerts made last, the first of them those of
\* the sample just processed, which made several: they went into a full log
C2_Witness ==
    /\ dash = "stream" /\ Len(alerts) = StreamAlertCap
    /\ Len(evals) = 1 /\ Len(evals[1].emitted) >= 2
    /\ alertSeqRef >= StreamAlertCap + Len(evals[1].emitted)
    /\ \A i \in 1..StreamAlertCap : alerts[i].id[3] = alertSeqRef - i

\* the first k entries of alerts' are new, the others are the first entries of
\* alerts, and an entry of alerts is gone only if the log is at its cap
C3_Prepended(k) ==
    /\ Len(alerts') - k = Len(alerts)
          \/ (Len(alerts') - k < Len(alerts) /\ Len(alerts') = AlertCap)
    /\ \A i \in 1..k : \A j \in DOMAIN alerts : alerts'[i].born > alerts[j].born
    /\ \A i \in 1..(Len(alerts') - k) : alerts'[k + i] = alerts[i]

\* C3: in the log an alert of a later sample never comes after an alert of an
\* earlier one, and every update of the log other than Clear Alerts puts the
\* new alerts at the head, keeps the older entries as they were and in their
\* order, and drops only the last ones, and only at the cap
C3_MostRecentFirst ==
    /\ [](\A i, j \in DOMAIN alerts :
             i < j /\ FromTick(alerts[i]) /\ FromTick(alerts[j])
                => alerts[i].born >= alerts[j].born)
    /\ [][alerts' # alerts /\ ~Clearing
             => \E k \in 1..Len(alerts') : C3_Prepended(k)]_vars

\* the timer log is full, its head made by the sample just processed, its
\* last entry by a sample at least two before
C3_Witness ==
    /\ dash = "timer" /\ Len(alerts) = TimerAlertCap /\ Len(evals) > 0
    /\ FromTick(alerts[1]) /\ FromTick(alerts[TimerAlertCap])
    /\ alerts[1].born = evals[Len(evals)].born
    /\ alerts[TimerAlertCap].born + 2 <= alerts[1].born
    /\ alerts[TimerAlertCap].born > 1

\* C4: no two alerts of the log have the same id
C4_UniqueIds ==
    \A i, j \in DOMAIN alerts : i # j => alerts[i].id # alerts[j].id

\* the samples whose drift update and scoring ran and whose buffer append and
\* alert-log append did not yet
Started == {i \in DOMAIN queue : queue[i].kind \in {"values", "sample"}}

\* Reset Baseline has replaced the drift state and its render has not run
Resetting ==
    /\ Sync
    /\ queue[Len(queue)].upd.kind = "add"
    /\ queue[Len(queue)].upd.alert.id[1] = "reset"

\* C5: a sample is accepted, and the baseline reset, only when no sample is
\* part-way through its processing
C5_OneAtATime ==
    /\ Cardinality(Started) <= 1
    /\ Resetting => Started = {}

DriftTitles == {"Drift critical", "Drift warning"}

\* C6: the processing of a sample makes one critical "Drift critical" alert if
\* the score is at least driftCritical, else one warn "Drift warning" alert if
\* it is at least driftWarn, else no drift alert
C6_DriftRule ==
    \A i \in DOMAIN evals :
       LET e == evals[i]
           d == WithTitle(e.emitted, DriftTitles)
       IN  IF Geq(e.dscore, e.th.driftCritical)
           THEN Len(d) = 1 /\ d[1].title = "Drift critical" /\ d[1].severity = "critical"
           ELSE IF Geq(e.dscore, e.th.driftWarn)
                THEN Len(d) = 1 /\ d[1].title = "Drift warning" /\ d[1].severity = "warn"
                ELSE Len(d) = 0

\* a score between the two thresholds made the warning alone
C6_Witness ==
    \E i \in DOMAIN evals :
       /\ Geq(evals[i].dscore, evals[i].th.driftWarn)
       /\ evals[i].th.driftCritical # NaN
       /\ evals[i].dscore < evals[i].th.driftCritical
       /\ Len(WithTitle(evals[i].emitted, {"Drift warning"})) = 1
       /\ Len(WithTitle(evals[i].emitted, {"Drift critical"})) = 0

TempTitle == {"Cryostat temperature elevated"}

EnvTitle == {"Environmental interference"}

TrendTitle == {"Predictive signal: coherence degrading"}

RECURSIVE SumFromTo(_, _, _)
SumFromTo(f, lo, hi) ==
    IF lo > hi THEN 0
    ELSE LET rest == SumFromTo(f, lo, hi - 1)
         IN  IF rest = NaN \/ f[hi] = NaN THEN NaN ELSE f[hi] + rest

\* the window the trend rule read held 24 points or more, and the mean of the
\* last 12 values of t1 is lower than that of the 12 before by more than 1.4
TrendHolds(e) ==
    /\ e.histLen >= 24
    /\ SumFromTo(e.histTail, 13, 24) # NaN
    /\ SumFromTo(e.histTail, 1, 12) # NaN
    /\ SumFromTo(e.histTail, 13, 24) - SumFromTo(e.histTail, 1, 12) < -(12 * 140)

DriftHolds(e) == Geq(e.dscore, e.th.driftCritical) \/ Geq(e.dscore, e.th.driftWarn)

TempHolds(e) == Geq(e.p.temp, 3000)

EnvHolds(e) == Geq(e.p.vibration, 2000) \/ Geq(e.p.em, 2000)

Count(cond) == IF cond THEN 1 ELSE 0

\* C7: for every sample each of the four rules makes one alert if its own
\* condition holds and none otherwise, whatever the other rules do, so four
\* alerts if all four hold; and the render of one sample puts exactly the
\* alerts made for it at the head of the log, cut at the cap
C7_RulesIndependent ==
    /\ [](\A i \in DOMAIN evals :
             LET e == evals[i]
             IN  /\ Len(WithTitle(e.emitted, DriftTitles)) = Count(DriftHolds(e))
                 /\ Len(WithTitle(e.emitted, TempTitle)) = Count(TempHolds(e))
                 /\ Len(WithTitle(e.emitted, EnvTitle)) = Count(EnvHolds(e))
                 /\ Len(WithTitle(e.emitted, TrendTitle)) = Count(TrendHolds(e))
                 /\ Len(e.emitted) = Count(DriftHolds(e)) + Count(TempHolds(e))
                                       + Count(EnvHolds(e)) + Count(TrendHolds(e)))
    /\ [][Len(queue) = 1 /\ queue[1].kind # "click" /\ queue' = <<>>
             => /\ Len(evals') = 1
                /\ alerts' = SubSeq(Reverse(evals'[1].emitted) \o alerts, 1,
                                    Min(AlertCap, Len(evals'[1].emitted) + Len(alerts)))]_vars

\* all four conditions held for the sample just processed and its four alerts
\* head the log
C7_Witness ==
    /\ Len(evals) = 1
    /\ DriftHolds(evals[1]) /\ TempHolds(evals[1]) /\ EnvHolds(evals[1]) /\ TrendHolds(evals[1])
    /\ Len(evals[1].emitted) = 4
    /\ SubSeq(alerts, 1, 4) = Reverse(evals[1].emitted)

\* C8: a point with t1 = 40 and every other metric at its baseline, processed
\* with alpha = 0.08 from a drift state whose t1 baseline is 95, scores at
\* least 1.6 and makes exactly one drift alert
C8_CollapseFlagged ==
    \A i \in DOMAIN evals :
       LET e == evals[i]
       IN  (/\ e.before # Null
            /\ e.alpha = <<2, 25>>
            /\ e.before.ema.t1 = 9500
            /\ e.p.t1 = 4000
            /\ \A k \in KeySet \ {"t1"} : e.p[k] = e.before.ema[k])
           => e.dscore >= 1600 /\ Len(WithTitle(e.emitted, DriftTitles)) = 1

\* C9: the trend rule makes one info alert if the window it reads holds 24
\* points or more and the mean of the last 12 values of t1 is lower than that
\* of the 12 before by more than 1.4, and none otherwise
C9_TrendRule ==
    \A i \in DOMAIN evals :
       LET e  == evals[i]
           pm == WithTitle(e.emitted, TrendTitle)
       IN  IF TrendHolds(e)
           THEN Len(pm) = 1 /\ pm[1].severity = "info"
           ELSE Len(pm) = 0

\* a window of exactly 24 points made the alert
C9_Witness ==
    \E i \in DOMAIN evals :
       /\ evals[i].histLen = 24
       /\ TrendHolds(evals[i])
       /\ Len(WithTitle(evals[i].emitted, TrendTitle)) = 1

\* C10: a processed point makes one warn "Cryostat temperature elevated"
\* alert if its temp is at least 0.03 and none if it is lower, whatever its
\* score, the thresholds and the other rules
C10_TempRule ==
    \A i \in DOMAIN evals :
       LET e == evals[i]
           t == WithTitle(e.emitted, TempTitle)
       IN  IF Geq(e.p.temp, 3000)
           THEN Len(t) = 1 /\ t[1].severity = "warn"
           ELSE Len(t) = 0

\* a point at exactly 0.03 made the alert and no drift alert
C10_Witness ==
    \E i \in DOMAIN evals :
       /\ evals[i].p.temp = 3000
       /\ evals[i].th.driftWarn # NaN
       /\ evals[i].dscore < evals[i].th.driftWarn
       /\ Len(WithTitle(evals[i].emitted, TempTitle)) = 1
       /\ Len(WithTitle(evals[i].emitted, DriftTitles)) = 0

\* the environment alerts of every processed sample are as the rule demands
\* with critical(p) deciding the severity
C11_EnvAlerts(critical(_)) ==
    \A i \in DOMAIN evals :
       LET e == evals[i]
           a == WithTitle(e.emitted, EnvTitle)
       IN  IF EnvHolds(e)
           THEN /\ Len(a) = 1
                /\ a[1].severity = IF critical(e.p) THEN "critical" ELSE "warn"
           ELSE Len(a) = 0

\* C11: a processed point makes one "Environmental interference" alert if and
\* only if vibration >= 2.0 or em >= 2.0, critical if vibration or em is at
\* least 2.4 and warn otherwise
C11_EnvRule ==
    C11_EnvAlerts(LAMBDA p : Geq(p.vibration, 2400) \/ Geq(p.em, 2400))

\* C11 as claimed: ... critical if vibration or em exceeds 2.4 and warn
\* otherwise
C11_EnvRuleExceeds ==
    C11_EnvAlerts(LAMBDA p : (p.vibration # NaN /\ p.vibration > 2400)
                                \/ (p.em # NaN /\ p.em > 2400))

\* a point with vibration at exactly 2.4 made a critical alert
C11_Witness ==
    \E i \in DOMAIN evals :
       /\ evals[i].p.vibration = 2400 /\ evals[i].p.em < 2000
       /\ Len(WithTitle(evals[i].emitted, EnvTitle)) = 1
       /\ WithTitle(evals[i].emitted, EnvTitle)[1].severity = "critical"

\* the last update of queue' was dispatched in this step and is of kind kind
Dispatched(kind) ==
    /\ Len(queue') = Len(queue) + 1
    /\ queue'[Len(queue')].kind = kind

\* a sample taken up in this step is processed from the drift state and the
\* buffer of this state
C12_FromHere ==
    /\ Dispatched("values") =>
          /\ queue'[Len(queue')].eval.before = driftRef
          /\ queue'[Len(queue')].next = Append(SliceLast(series, 89), queue'[Len(queue')].eval.p)
    /\ Dispatched("sample") => queue'[Len(queue')].before = driftRef
    /\ (Len(queue) > 0 /\ queue' = <<>> /\ queue[1].kind = "tick") =>
          /\ evals'[1].before = driftRef
          /\ evals'[1].histLen = Len(series)
          /\ series'[Len(series') - Len(evals') + 1] = evals'[1].p
    /\ (Len(queue) > 0 /\ queue' = <<>> /\ queue[1].kind = "sample") =>
          /\ evals'[1].histLen = Min(SeriesLen, Len(series) + 1)
          /\ series'[Len(series') - Len(evals') + 1] = evals'[1].p

ResetStep == Dispatched("click") /\ Resetting'

\* C13: right after Reset Baseline the drift state is the initial state of
\* the latest point of the buffer: for each of the eight keys ema is that
\* point's value, resMean is 0 and resVar is 1
C13_ResetBaseline ==
    [][ResetStep =>
          /\ DOMAIN driftRef' = {"ema", "resMean", "resVar"}
          /\ \A k \in KeySet :
                /\ driftRef'.ema[k] = series[Len(series)][k]
                /\ driftRef'.resMean[k] = 0
                /\ driftRef'.resVar[k] = VarOne(k)
          /\ series' = series]_vars

\* Reset Baseline ran after samples were processed and rendered: the baseline
\* of t1 is the latest t1, which is not the seed's
C13_Witness ==
    /\ Resetting /\ ops > 1
    /\ series[Len(series)].ts > StartTime
    /\ driftRef.ema.t1 = series[Len(series)].t1
    /\ driftRef.ema.t1 # series[1].t1
    /\ driftRef.resVar.t1 = VarOne("t1")

\* the drift state after the sample p, smoothing factor a[1] / a[2]
C14_After(ds, p, a) ==
    IF ds = Null THEN initDriftState(p) ELSE updateDriftState(ds, p, a[1], a[2])

\* the step renders a queue that holds interval ticks whose updater did not
\* run yet
RendersTicks ==
    /\ Len(queue) > 0 /\ queue' = <<>>
    /\ \E i \in DOMAIN queue : queue[i].kind = "tick"

\* the first of the samples of evals' that come from such ticks
FirstTick ==
    Len(evals') + 1 - Cardinality({i \in DOMAIN queue : queue[i].kind = "tick"})

\* C14: once the dashboard is mounted the drift state changes only by Reset
\* Baseline and by the update of a sample that is processed, one update for
\* each sample: pause, resume, clear alerts, the manual alerts, the threshold
\* and sensitivity changes, a stream error and the renders of these leave it
\* as it is
C14_DriftStateFrame ==
    /\ [][driftRef' # driftRef =>
             \/ ~mounted
             \/ ResetStep
             \/ Dispatched("values")
             \/ Dispatched("sample")
             \/ RendersTicks]_vars
    /\ [][Dispatched("values") =>
             driftRef' = C14_After(driftRef, queue'[Len(queue')].eval.p, <<2, 25>>)]_vars
    /\ [][Dispatched("sample") =>
             driftRef' = C14_After(driftRef, queue'[Len(queue')].p,
                                   queue'[Len(queue')].alpha)]_vars
    /\ [][RendersTicks =>
             /\ evals'[FirstTick].before = driftRef
             /\ \A j \in FirstTick..(Len(evals') - 1) :
                   evals'[j + 1].before = C14_After(evals'[j].before, evals'[j].p, <<2, 25>>)
             /\ driftRef' = C14_After(evals'[Len(evals')].before, evals'[Len(evals')].p,
                                      <<2, 25>>)]_vars

\* the stream failed after samples were processed and made alerts, and the
\* drift state is there
C14_Witness ==
    /\ dash = "stream" /\ streamStatus = "error" /\ es = "closed"
    /\ ops > 0 /\ driftRef # Null /\ Len(alerts) > 0
    /\ series[Len(series)].ts > StartTime

\* the record lacks one of the eight metrics
LacksMetric(p) == \E k \in KeySet : p[k] = NaN

\* C15: a record that does not parse into a MetricPoint is dropped: none gets
\* into the pending updates, the buffer or the drift state
C15_MalformedDropped ==
    /\ \A i \in DOMAIN queue : queue[i].kind = "sample" => ~LacksMetric(queue[i].p)
    /\ \A i \in DOMAIN series : ~LacksMetric(series[i])
    /\ driftRef # Null =>
          \A k \in KeySet : /\ driftRef.ema[k] # NaN
                            /\ driftRef.resMean[k] # NaN
                            /\ driftRef.resVar[k] # NaN

\* the render that follows a change of paused, of the sensitivity or of a
\* threshold runs the stream effect again
Restart ==
    /\ Len(queue) > 0 /\ queue' = <<>>
    /\ paused' # paused \/ intensity' # intensity \/ thresholds' # thresholds
    /\ es' = IF paused' THEN "none" ELSE "connecting"

\* C16: when the event stream fails the status becomes "error" and the
\* EventSource is closed, with the drift state, the buffer and the alert log
\* as they were; from then on the status stays "error", no sample is taken
\* up, the drift state stays as it is and no EventSource is opened, until a
\* change of paused, of the sensitivity or of a threshold runs the stream
\* effect again
C16_FailureStops ==
    /\ [](es = "closed" => streamStatus = "error")
    /\ [][es # "closed" /\ es' = "closed" =>
             /\ streamStatus' = "error"
             /\ UNCHANGED <<driftRef, series, alerts, queue>>]_vars
    /\ [][es = "closed" =>
             /\ driftRef' = driftRef
             /\ ops' = ops
             /\ ~Dispatched("sample")
             /\ es' = "closed" \/ Restart]_vars

\* the stream has failed after samples were processed, a text typed in a
\* threshold field is rendered and nothing is pending
C16_Witness ==
    /\ dash = "stream" /\ es = "closed" /\ streamStatus = "error"
    /\ ops > 0 /\ queue = <<>> /\ Len(series) = SeriesLen
    /\ thresholdInputs # thresholds

\* C17: the active driftWarn lies in [0.8, 4] and the active driftCritical in
\* [1.0, 5]
C17_ThresholdsInRange ==
    /\ thresholds.driftWarn # NaN /\ thresholds.driftCritical # NaN
    /\ thresholds.driftWarn >= 800 /\ thresholds.driftWarn <= 4000
    /\ thresholds.driftCritical >= 1000 /\ thresholds.driftCritical <= 5000

\* C18: the active thresholds satisfy driftWarn < driftCritical
C18_WarnBelowCritical ==
    /\ thresholds.driftWarn # NaN /\ thresholds.driftCritical # NaN
    /\ thresholds.driftWarn < thresholds.driftCritical

\* C19: resVar >= 0 for every key of the drift state
C19_ResVarNonNegative ==
    driftRef # Null => \A k \in KeySet : Geq(driftRef.resVar[k], 0)

\* the weighted mean of the eight z values, in thousandths
C20_Mean(z) ==
    (12 * z.t1 + 11 * z.t2 + 10 * z.gate1q + 12 * z.gate2q + 10 * z.readout
       + 8 * z.temp + 7 * z.vibration + 7 * z.em) \div (12 + 11 + 10 + 12 + 10 + 8 + 7 + 7)

\* |d| / sqrt(v) for the key k in thousandths, 0 where the root is 0
C20_Ratio(k, d, v) ==
    IF Stdev16(k, v) > 0 THEN (Abs(d) * 16000) \div Stdev16(k, v) ELSE 0

\* C20: the score of a processed point is the sum of weight_k * z_k over the
\* eight metrics divided by the sum of the weights, with
\* z_k = |x_k - ema_k - resMean_k| / sqrt(resVar_k), and 0 where the root is 0
C20_ScoreFormula ==
    \A i \in DOMAIN evals :
       LET e  == evals[i]
           st == C14_After(e.before, e.p, e.alpha)
       IN  e.dscore = C20_Mean([k \in KeySet |->
                          C20_Ratio(k, e.p[k] - st.ema[k] - st.resMean[k], st.resVar[k])])

\* C20 as claimed: ... with z_k = |x_k - ema_k| / sqrt(resVar_k)
C20_ScoreFormulaNoMean ==
    \A i \in DOMAIN evals :
       LET e  == evals[i]
           st == C14_After(e.before, e.p, e.alpha)
       IN  e.dscore = C20_Mean([k \in KeySet |->
                          C20_Ratio(k, e.p[k] - st.ema[k], st.resVar[k])])

\* a point was scored against a state whose resMean of t1 is not 0, and its
\* score is not 0
C20_Witness ==
    \E i \in DOMAIN evals :
       /\ C14_After(evals[i].before, evals[i].p, evals[i].alpha).resMean.t1 # 0
       /\ evals[i].dscore > 0

\* C21: whenever the square root of a metric's resVar is not above 1e-9, that
\* is resVar is at most 1e-18, the metric's z value is 0 whatever the residual,
\* and above that it is |residual - resMean| / sqrt(resVar)
C21_TinyVarianceZero ==
    Len(series) = 1 =>
       LET d == series[1].t1 - driftRef.ema.t1 - driftRef.resMean.t1
           v == driftRef.resVar.t1
       IN  IF v <= 100 THEN drift = 0
           ELSE drift = (Abs(d) * 16000) \div ISqrt(v * 256)

\* C21 as claimed: whenever a metric's resVar is below 1e-9 its z value is 0
C21_BelowEpsZero ==
    (Len(series) = 1 /\ driftRef.resVar.t1 \div 1000 < 100000000) => drift = 0

\* a point was scored against a variance of exactly 1e-18 with a residual far
\* from the residual mean, and its score is 0
C21_Witness ==
    /\ Len(series) = 1 /\ driftRef.resVar.t1 = 100
    /\ series[1].t1 - driftRef.ema.t1 - driftRef.resMean.t1 = 1000
    /\ drift = 0

\* the step is an update of the drift state with the unchanging point
SameStep == script' = script - 1

\* C23: a drift state made from a point p and updated again and again with p,
\* for every alpha drawn from (0, 1], keeps every ema at p's value and every
\* resMean at 0, its resVar gets smaller at every update and never negative,
\* and the score of p is 0 after every update
C23_ConstantPoint ==
    [][(SameStep /\ \A k \in KeySet : driftRef.resVar[k] > 0)
          => /\ \A k \in KeySet :
                   /\ driftRef'.ema[k] = series[1][k]
                   /\ driftRef'.resMean[k] = 0
                   /\ driftRef'.resVar[k] >= 0
                   /\ driftRef'.resVar[k] < driftRef.resVar[k]
             /\ drift' = 0]_vars

\* after the last of the updates with the point the state was made from, the
\* variance of t1 is below a quarter of its first value and not 0
C23_Witness ==
    /\ script = 0 /\ free = CoreSteps
    /\ driftRef.ema.t1 = series[1].t1
    /\ driftRef.resVar.t1 > 0
    /\ 4 * driftRef.resVar.t1 < VarOne("t1")
    /\ drift = 0

\* every metric of p within the limits nextPoint clamps it to
InRanges(p) ==
    /\ p.t1 >= 1800 /\ p.t1 <= 13000
    /\ p.t2 >= 1200 /\ p.t2 <= 10000
    /\ p.gate1q >= 98800 /\ p.gate1q <= 99900
    /\ p.gate2q >= 97200 /\ p.gate2q <= 99600
    /\ p.readout >= 400 /\ p.readout <= 6500
    /\ p.temp >= 600 /\ p.temp <= 5000
    /\ p.vibration >= 200 /\ p.vibration <= 3000
    /\ p.em >= 200 /\ p.em <= 3000

\* C25: whatever the previous point, in or out of the ranges, the intensity,
\* the draws and injectSpike, the point nextPoint returns has t1 in [18, 130],
\* t2 in [12, 100], gate1q in [98.8, 99.9], gate2q in [97.2, 99.6], readout in
\* [0.4, 6.5], temp in [0.006, 0.05], vibration and em in [0.2, 3.0]: so is
\* every point a tick of the timer dashboard processes and appends
C25_GeneratedInRanges ==
    dash = "timer" =>
       /\ \A i \in DOMAIN evals : InRanges(evals[i].p)
       /\ \A i \in 2..Len(series) : InRanges(series[i])

\* a tick whose previous point lay far outside the ranges appended a point
\* clamped to the limits it lay beyond
C25_Witness ==
    /\ dash = "timer" /\ Len(series) = 2 /\ Len(evals) = 1
    /\ ~InRanges(series[1])
    /\ series[2] = evals[1].p
    /\ series[2].t1 = 13000 /\ series[2].gate1q = 99900
    /\ series[2].gate2q = 97200 /\ series[2].em <= 3000

\* z, in thousandths, is at most sqrt(20) = 4.472, within the 0.6% that the
\* rounding of the model's variances and square roots may add
C27_AtMostRoot20(z) == 1000 * z <= 4472 * 1006

\* C27: a point scored against the drift state that was just updated with it
\* has every per-metric z, and so its score, at most sqrt(20), and makes no
\* "Drift critical" alert when driftCritical is above sqrt(20)
C27_ScoreBounded ==
    \A i \in DOMAIN evals :
       LET e  == evals[i]
           st == C14_After(e.before, e.p, e.alpha)
       IN  /\ \A k \in KeySet : C27_AtMostRoot20(ZOf(st, e.p, k))
           /\ C27_AtMostRoot20(e.dscore)
           /\ ~C27_AtMostRoot20(e.th.driftCritical)
                 => Len(WithTitle(e.emitted, {"Drift critical"})) = 0

\* a point far from the baselines scored within 2% of sqrt(20), above the
\* default critical threshold, and driftCritical, set at 4.8, made no alert
C27_Witness ==
    \E i \in DOMAIN evals :
       /\ evals[i].before # Null
       /\ evals[i].dscore >= 4400
       /\ evals[i].th.driftCritical = 4800
       /\ Len(WithTitle(evals[i].emitted, {"Drift critical"})) = 0
       /\ Len(WithTitle(evals[i].emitted, {"Drift warning"})) = 1

\* C22: for a drift state and a point of finite numbers, every resVar at
\* least 0, the score is never negative and never NaN; where the root of
\* resVar is 0 the metric adds 0 to it; it is Infinity when a difference, a
\* quotient or the weighted sum lies beyond the largest double, and the
\* weighted mean of the |x - ema - resMean| / sqrt(resVar) otherwise
C22_ScoreNotNegative ==
    Len(series) = 1 =>
       LET x == series[1].t1
           s == ISqrt(driftRef.resVar.t1)
           q == IF s > 0 THEN (Abs(x - driftRef.ema.t1 - driftRef.resMean.t1) * 10) \div s
                ELSE 0
       IN  /\ drift # NaN
           /\ drift >= 0
           /\ IF s > 0 /\ (Abs(x - driftRef.ema.t1) > MaxDouble \/ 77 * q > 10 * MaxDouble)
              THEN drift = Infinity
              ELSE drift = q

\* C22 as claimed: the score is a finite number, at least 0
C22_ScoreFinite ==
    Len(series) = 1 => (drift # NaN /\ drift >= 0 /\ drift # Infinity)

\* a point at 1e308 scored 0 against a state whose baselines are 0 and whose
\* resVar is 0
C22_Witness ==
    /\ Len(series) = 1
    /\ series[1].t1 = 1000000
    /\ driftRef.ema.t1 = 0
    /\ driftRef.resVar.t1 = 0
    /\ drift = 0

\* the weighted sum of the six numbers of parts
C24_Weighted(parts) ==
    22 * parts[1] + 22 * parts[2] + 18 * parts[3] + 18 * parts[4] + 12 * parts[5]
      + 8 * parts[6]

C26_TrendSeesNewPoint ==
    Len(evals) = 1 =>
       /\ evals[1].histTail = HistTail(series)
       /\ Len(WithTitle(evals[1].emitted, TrendTitle)) = 1
             <=> (Len(series) >= 24
                    /\ TrendBelow(SliceLast(series, 12), SlicePrevBlock(series)))

\* C28: between operations, once the warm-up has run, the drift score shown
\* is driftScore of the current drift state and the latest point of the
\* buffer, after a tick and after Reset Baseline alike
C28_DriftIsCurrent ==
    (mounted /\ queue = <<>> /\ driftRef # Null /\ Len(series) > 0)
       => drift = driftScore(driftRef, series[Len(series)])

\* C29: once the 90-point seed is in the buffer, the buffer holds exactly 90
\* points in every state, and the window the trend rule reads when a sample is
\* processed holds 24 points or more
C29_BufferFull ==
    /\ (dash = "timer" \/ mounted) => Len(series) = SeriesLen
    /\ \A i \in DOMAIN evals : evals[i].histLen >= 24

\* a sample was processed and appended, the trend rule read 90 points, and the
\* buffer holds 90 points
C29_Witness ==
    /\ Len(evals) > 0
    /\ evals[Len(evals)].histLen = SeriesLen
    /\ Len(series) = SeriesLen
    /\ series[SeriesLen] = evals[Len(evals)].p

\* C30: the stream status is "live" only while the EventSource is open and the
\* dashboard is not paused, and it becomes "live" only when a connecting
\* EventSource reports open; a render that changes paused, the sensitivity or
\* a threshold sets it to "connecting"; a failure of the stream sets it to
\* "error", and "error" it stays until such a render
C30_LiveOnlyWhileOpen ==
    /\ [](streamStatus = "live" => (es = "open" /\ ~paused))
    /\ [][(streamStatus # "live" /\ streamStatus' = "live")
             => (es = "connecting" /\ es' = "open")]_vars
    /\ [][Restart => streamStatus' = "connecting"]_vars
    /\ [][(es \in {"connecting", "open"} /\ es' = "closed") => streamStatus' = "error"]_vars
    /\ [][(streamStatus = "error" /\ streamStatus' # "error") => Restart]_vars

\* the stream is live again after the sensitivity was changed
C30_Witness ==
    /\ dash = "stream" /\ streamStatus = "live" /\ es = "open"
    /\ intensity # 10 /\ ~paused

====
